---- MODULE Spec2Model ----
(***************************************************************************)
(* Type classifier / layout computation (src/src/types.rs) and the         *)
(* compilation driver (src/src/context.rs) of cairo_native.                *)
(*                                                                         *)
(* Two specifications:                                                     *)
(*   SpecTypes  a program registry grows by type declarations; the         *)
(*              classifier functions are operators over (descriptor,       *)
(*              registry), as in the TypeBuilder impl.                     *)
(*   Spec       threads call NativeContext::compile; each call walks the   *)
(*              steps of the function body.                                *)
(***************************************************************************)
EXTENDS Integers, Sequences, FiniteSets, TLC

VARIABLES
    registry,      \* ProgramRegistry: concrete type id -> descriptor
    table,         \* per declared type id, what the classifier returned for it
    INITIALIZED,   \* the process-wide OnceLock of compile
    init_count,    \* how many times the LLVM target initialization block ran
    env,           \* the environment variable NATIVE_DEBUG_DUMP
    calls,         \* compile() calls started so far
    pc,            \* per thread: the step of compile() it is about to take
    context,       \* per thread: the NativeContext its call was made on
    program,       \* per thread: the type declarations of the program
    module,        \* per thread: the state of the call's MLIR module
    metadata,      \* per thread: the call's MetadataStorage
    lowered_with,  \* per thread: the metadata crate::compile was handed
    written,       \* per thread: the dump files the call wrote, in order
    gate,          \* per thread: the values the call read from NATIVE_DEBUG_DUMP
    verified,      \* per thread: the module state op.verify() was applied to
    result         \* per thread: what the last finished call returned

\* ------------------------------------------------------------------------
\* Bounds
\* ------------------------------------------------------------------------
MaxTypes == 3
MaxMembers == 2
MaxCalls == 2

\* ------------------------------------------------------------------------
\* num_bigint::BigInt, sign and 16-bit limbs (little endian, no leading zero
\* limb; zero is the empty magnitude).
\* ------------------------------------------------------------------------
LimbBase == 65536
LimbBits == 16

RECURSIVE Trim(_)
Trim(m) ==
    IF m = <<>> THEN <<>>
    ELSE IF m[Len(m)] = 0 THEN Trim(SubSeq(m, 1, Len(m) - 1)) ELSE m

RECURSIVE MagAdd(_, _, _)
MagAdd(a, b, c) ==
    IF a = <<>> /\ b = <<>> THEN (IF c = 0 THEN <<>> ELSE <<c>>)
    ELSE LET x == IF a = <<>> THEN 0 ELSE Head(a)
             y == IF b = <<>> THEN 0 ELSE Head(b)
             s == x + y + c
             ta == IF a = <<>> THEN <<>> ELSE Tail(a)
             tb == IF b = <<>> THEN <<>> ELSE Tail(b)
         IN  <<s % LimbBase>> \o MagAdd(ta, tb, s \div LimbBase)

\* a - b - borrow for magnitudes with a >= b
RECURSIVE MagSubB(_, _, _)
MagSubB(a, b, c) ==
    IF a = <<>> THEN <<>>
    ELSE LET y == IF b = <<>> THEN 0 ELSE Head(b)
             d == Head(a) - y - c
             tb == IF b = <<>> THEN <<>> ELSE Tail(b)
         IN  IF d < 0 THEN <<d + LimbBase>> \o MagSubB(Tail(a), tb, 1)
             ELSE <<d>> \o MagSubB(Tail(a), tb, 0)

MagSub(a, b) == Trim(MagSubB(a, b, 0))

\* -1, 0, 1 as a <, =, > b
RECURSIVE MagCmpAt(_, _, _)
MagCmpAt(a, b, i) ==
    IF i = 0 THEN 0
    ELSE IF a[i] < b[i] THEN -1
    ELSE IF a[i] > b[i] THEN 1
    ELSE MagCmpAt(a, b, i - 1)

MagCmp(a, b) ==
    IF Len(a) < Len(b) THEN -1
    ELSE IF Len(a) > Len(b) THEN 1
    ELSE MagCmpAt(a, b, Len(a))

Big(neg, mag) == [neg |-> (neg /\ mag # <<>>), mag |-> mag]

BigZero == Big(FALSE, <<>>)
BigOne == Big(FALSE, <<1>>)

BigNeg(x) == Big(~x.neg, x.mag)

BigAdd(x, y) ==
    IF x.neg = y.neg THEN Big(x.neg, MagAdd(x.mag, y.mag, 0))
    ELSE IF MagCmp(x.mag, y.mag) >= 0 THEN Big(x.neg, MagSub(x.mag, y.mag))
    ELSE Big(y.neg, MagSub(y.mag, x.mag))

BigSub(x, y) == BigAdd(x, BigNeg(y))

BigLt(x, y) ==
    IF x.neg # y.neg THEN x.neg
    ELSE IF x.neg THEN MagCmp(x.mag, y.mag) > 0
    ELSE MagCmp(x.mag, y.mag) < 0

RECURSIVE Pow2(_)
Pow2(k) == IF k = 0 THEN 1 ELSE 2 * Pow2(k - 1)

\* BigInt::one() << k
BigShl1(k) ==
    Big(FALSE, [i \in 1..(k \div LimbBits + 1) |->
                    IF i = k \div LimbBits + 1 THEN Pow2(k % LimbBits) ELSE 0])

RECURSIVE IntBits(_)
IntBits(n) == IF n = 0 THEN 0 ELSE 1 + IntBits(n \div 2)

\* BigInt::bits(): bit length of the magnitude
BigBits(x) ==
    IF x.mag = <<>> THEN 0
    ELSE LimbBits * (Len(x.mag) - 1) + IntBits(x.mag[Len(x.mag)])

\* ------------------------------------------------------------------------
\* std::alloc::Layout
\* ------------------------------------------------------------------------
Layout(s, a) == [size |-> s, align |-> a]

Max(a, b) == IF a >= b THEN a ELSE b

round_up(n, a) == ((n + a - 1) \div a) * a

\* Layout::extend(...).0
extend(l1, l2) ==
    Layout(round_up(l1.size, l2.align) + l2.size, Max(l1.align, l2.align))

pad_to_align(l) == Layout(round_up(l.size, l.align), l.align)

\* Layout::new::<*mut ()>(), Layout::new::<u64>(), Layout::new::<()>()
LayoutPtr == Layout(8, 8)
LayoutU64 == Layout(8, 8)
LayoutUnit == Layout(0, 1)

\* usize::next_power_of_two
RECURSIVE npot(_, _)
npot(n, p) == IF p >= n THEN p ELSE npot(n, 2 * p)
next_power_of_two(n) == npot(n, 1)

\* usize::trailing_zeros of a non-zero value
RECURSIVE trailing_zeros(_)
trailing_zeros(n) == IF n % 2 = 1 THEN 0 ELSE 1 + trailing_zeros(n \div 2)

\* ------------------------------------------------------------------------
\* Results: Result<T, Error>
\* ------------------------------------------------------------------------
OkB(b) == [ok |-> TRUE, val |-> b, err |-> "none"]
ErrB(e) == [ok |-> FALSE, val |-> FALSE, err |-> e]
OkL(l) == [ok |-> TRUE, val |-> l, err |-> "none"]
ErrL(e) == [ok |-> FALSE, val |-> Layout(0, 1), err |-> e]
Range(lo, hi) == [lower |-> lo, upper |-> hi]
OkR(r) == [ok |-> TRUE, val |-> r, err |-> "none"]
ErrR(e) == [ok |-> FALSE, val |-> Range(BigZero, BigZero), err |-> e]
OkT(t) == [ok |-> TRUE, val |-> t, err |-> "none"]
ErrT(e) == [ok |-> FALSE, val |-> "none", err |-> e]

\* native_panic!(..): leaves the enclosing function with an error value
native_panic == "UnsupportedType"

\* ------------------------------------------------------------------------
\* Concrete type descriptors (CoreTypeConcrete).  ty: the concrete type ids
\* the descriptor refers to (info.ty, info.inner_ty, info.members,
\* info.variants); lower/upper: info.range of a BoundedInt.
\* ------------------------------------------------------------------------
Desc(f, ids, lo, hi) == [fam |-> f, ty |-> ids, lower |-> lo, upper |-> hi]
Plain(f) == Desc(f, <<>>, BigZero, BigZero)

CounterFamilies ==
    {"Bitwise", "EcOp", "RangeCheck", "RangeCheck96", "Pedersen", "Poseidon",
     "SegmentArena", "GasBuiltin", "BuiltinCosts"}
UintFamilies == {"Uint8", "Uint16", "Uint32", "Uint64", "Uint128"}
SintFamilies == {"Sint8", "Sint16", "Sint32", "Sint64", "Sint128"}
StarknetFeltFamilies ==
    {"Starknet.ClassHash", "Starknet.ContractAddress",
     "Starknet.StorageAddress", "Starknet.StorageBaseAddress"}
StarknetFamilies ==
    StarknetFeltFamilies \cup
    {"Starknet.System", "Starknet.Secp256Point", "Starknet.Sha256StateHandle"}
CircuitFamilies == {"Circuit.AddMod", "Circuit.MulMod"}
OtherLeafFamilies ==
    {"Array", "Box", "Bytes31", "EcPoint", "EcState", "Felt252", "Felt252Dict",
     "Felt252DictEntry", "Nullable", "SquashedFelt252Dict",
     "Uint128MulGuarantee", "Coupon", "Span", "Blake", "QM31"}
LeafFamilies ==
    CounterFamilies \cup UintFamilies \cup SintFamilies \cup StarknetFamilies
    \cup CircuitFamilies \cup OtherLeafFamilies
WrapperFamilies == {"NonZero", "Snapshot", "Uninitialized", "Const"}
InnerFamilies == WrapperFamilies \cup {"IntRange"}

\* BoundedInt ranges of the model: [0,1), [-128,128), [0,2^127), [0,2^128)
BoundedRanges ==
    {Range(BigZero, BigOne),
     Range(BigNeg(BigShl1(7)), BigShl1(7)),
     Range(BigZero, BigShl1(127)),
     Range(BigZero, BigShl1(128))}

LeafDescs ==
    {Plain(f) : f \in LeafFamilies} \cup
    {Desc("BoundedInt", <<>>, r.lower, r.upper) : r \in BoundedRanges}

\* Leaves a program declares next to its first type
SiblingLeafDescs == {Plain("Uint8"), Plain("Coupon")}

\* ------------------------------------------------------------------------
\* Collaborators outside types.rs
\* ------------------------------------------------------------------------
\* utils::get_integer_layout
get_integer_layout(width) ==
    IF width = 0 THEN LayoutUnit
    ELSE LET bytes == (width + 7) \div 8
         IN  Layout(bytes, next_power_of_two(bytes))

\* utils::layout_repeat(..).0
RECURSIVE layout_repeat(_, _)
layout_repeat(l, n) ==
    IF n = 0 THEN LayoutUnit
    ELSE IF n = 1 THEN l
    ELSE extend(layout_repeat(l, n - 1), l)

\* utils::RangeExt::offset_bit_width
offset_bit_width(range) == BigBits(BigSub(range.upper, range.lower))

\* utils::PRIME = 2^251 + 17 * 2^192 + 1
PRIME ==
    Big(FALSE, [i \in 1..16 |->
                   IF i = 1 THEN 1 ELSE IF i = 13 THEN 17
                   ELSE IF i = 16 THEN 2048 ELSE 0])

\* types::circuit::{layout, is_zst, is_complex} for the add/mul builtins
circuit_layout(f) == OkL(get_integer_layout(64))
circuit_is_zst(self) == FALSE
circuit_is_complex(self) == FALSE

\* ------------------------------------------------------------------------
\* impl TypeBuilder for CoreTypeConcrete
\* ------------------------------------------------------------------------
RECURSIVE is_complex(_, _, _), is_zst(_, _), struct_is_zst(_, _, _)
RECURSIVE layout(_, _), layout_match(_, _), enum_fold(_, _, _, _, _)
RECURSIVE struct_fold(_, _, _, _, _)
RECURSIVE is_memory_allocated(_, _), enum_any_non_zst(_, _, _)
RECURSIVE struct_any_memory_allocated(_, _, _)
RECURSIVE integer_range(_, _), is_bounded_int(_, _), is_felt252(_, _)

\* registry.get_type(id)?.is_complex(registry)?, and likewise below; arch is
\* the cfg(target_arch) the crate is built for
is_complex_of(id, reg, arch) ==
    IF id \notin DOMAIN reg THEN ErrB("MissingType")
    ELSE is_complex(reg[id], reg, arch)
is_zst_of(id, reg) ==
    IF id \notin DOMAIN reg THEN ErrB("MissingType") ELSE is_zst(reg[id], reg)
layout_of(id, reg) ==
    IF id \notin DOMAIN reg THEN ErrL("MissingType") ELSE layout(reg[id], reg)
is_memory_allocated_of(id, reg) ==
    IF id \notin DOMAIN reg THEN ErrB("MissingType")
    ELSE is_memory_allocated(reg[id], reg)
integer_range_of(id, reg) ==
    IF id \notin DOMAIN reg THEN ErrR("MissingType")
    ELSE integer_range(reg[id], reg)

\* the families of the matches!(..) of is_builtin
BuiltinArm ==
    {"Bitwise", "EcOp", "GasBuiltin", "BuiltinCosts", "RangeCheck",
     "RangeCheck96", "Pedersen", "Poseidon", "Coupon", "Starknet.System",
     "SegmentArena", "Circuit.AddMod", "Circuit.MulMod"}

\* an is_builtin that also counts the Uint128MulGuarantee token
is_builtin_with_guarantee(self) ==
    self.fam \in BuiltinArm \cup {"Uint128MulGuarantee"}

is_builtin(self) == self.fam \in BuiltinArm

\* the families of the match arms of is_complex, in source order
ComplexBuiltinArm ==
    {"Bitwise", "EcOp", "GasBuiltin", "BuiltinCosts", "RangeCheck", "Pedersen",
     "Poseidon", "RangeCheck96", "Starknet.System", "SegmentArena"}
ComplexScalarArm ==
    {"Box", "Uint8", "Uint16", "Uint32", "Uint64", "Uint128",
     "Uint128MulGuarantee", "Sint8", "Sint16", "Sint32", "Sint64", "Sint128",
     "Nullable", "Felt252Dict", "SquashedFelt252Dict"}
ComplexTrueArm == {"Array", "EcPoint", "EcState", "Felt252DictEntry"}
ComplexFeltArm == {"Felt252", "Bytes31"} \cup StarknetFeltFamilies
ComplexWrapperArm == {"NonZero", "Uninitialized", "Snapshot"}
ComplexSecpArm == {"Starknet.Secp256Point", "Starknet.Sha256StateHandle"}

\* the #[cfg(target_arch)] arm of Felt252, Bytes31 and the Starknet felts
is_complex_felt(arch) == arch = "x86_64"

\* a BoundedInt arm of is_complex whose threshold is one bit lower
is_complex_bounded_int_from_128(self, arch) ==
    IF arch = "x86_64" THEN offset_bit_width(Range(self.lower, self.upper)) >= 128
    ELSE FALSE

\* the #[cfg(target_arch)] arm of BoundedInt
is_complex_bounded_int(self, arch) ==
    IF arch = "x86_64" THEN offset_bit_width(Range(self.lower, self.upper)) > 128
    ELSE FALSE

\* an Enum arm of is_complex that passes every multi-variant enum by value
is_complex_enum_by_value(self, reg, arch) ==
    IF Len(self.ty) = 1 THEN is_complex_of(self.ty[1], reg, arch)
    ELSE OkB(FALSE)

\* the Enum arm of is_complex
is_complex_enum(self, reg, arch) ==
    IF Len(self.ty) = 0 THEN OkB(FALSE)
    ELSE IF Len(self.ty) = 1 THEN is_complex_of(self.ty[1], reg, arch)
    ELSE LET z == is_zst(self, reg)
         IN  IF z.ok THEN OkB(~z.val) ELSE z

\* the NonZero | Uninitialized | Snapshot arm of is_complex
is_complex_wrapper(self, reg, arch) == is_complex_of(self.ty[1], reg, arch)

\* the Const arm of is_complex
is_complex_const(self, reg, arch) == ErrB(native_panic)

is_complex(self, reg, arch) ==
    LET f == self.fam IN
    IF f \in ComplexBuiltinArm THEN OkB(FALSE)
    ELSE IF f \in ComplexScalarArm THEN OkB(FALSE)
    ELSE IF f \in ComplexTrueArm THEN OkB(TRUE)
    ELSE IF f \in ComplexFeltArm THEN OkB(is_complex_felt(arch))
    ELSE IF f \in ComplexWrapperArm THEN is_complex_wrapper(self, reg, arch)
    ELSE IF f = "Enum" THEN is_complex_enum(self, reg, arch)
    ELSE IF f = "Struct" THEN OkB(TRUE)
    ELSE IF f = "BoundedInt" THEN OkB(is_complex_bounded_int(self, arch))
    ELSE IF f = "Const" THEN is_complex_const(self, reg, arch)
    ELSE IF f = "Span" THEN ErrB(native_panic)
    ELSE IF f \in ComplexSecpArm THEN ErrB(native_panic)
    ELSE IF f = "Coupon" THEN OkB(FALSE)
    ELSE IF f \in CircuitFamilies THEN OkB(circuit_is_complex(self))
    ELSE IF f = "IntRange" THEN OkB(FALSE)
    ELSE ErrB(native_panic)   \* Blake, QM31

\* the Struct arm of is_zst: the loop over info.members from member i on
struct_is_zst(members, i, reg) ==
    IF i > Len(members) THEN OkB(TRUE)
    ELSE LET r == is_zst_of(members[i], reg)
         IN  IF ~r.ok THEN r
             ELSE IF ~r.val THEN OkB(FALSE)
             ELSE struct_is_zst(members, i + 1, reg)

\* an Enum arm of is_zst that treats the variants like struct members
is_zst_enum_all_variants(self, reg) == struct_is_zst(self.ty, 1, reg)

\* the Enum arm of is_zst
is_zst_enum(self, reg) ==
    IF Len(self.ty) = 0 THEN OkB(TRUE)
    ELSE IF Len(self.ty) = 1 THEN is_zst_of(self.ty[1], reg)
    ELSE OkB(FALSE)

\* a Struct arm of is_zst that never reports a zero-sized struct
is_zst_struct_never(self, reg) == OkB(FALSE)

\* the Struct arm of is_zst
is_zst_struct(self, reg) == struct_is_zst(self.ty, 1, reg)

\* the NonZero | Uninitialized | Snapshot, Const and IntRange arms of is_zst
is_zst_inner(self, reg) == is_zst_of(self.ty[1], reg)

\* the families of the match arms of is_zst, in source order
ZstCounterArm ==
    {"Bitwise", "EcOp", "RangeCheck", "Pedersen", "Poseidon", "RangeCheck96",
     "SegmentArena"}
ZstTokenArm == {"Uint128MulGuarantee", "Coupon"}
ZstNormalArm ==
    {"Array", "Box", "Bytes31", "EcPoint", "EcState", "Felt252", "GasBuiltin",
     "Felt252Dict", "Felt252DictEntry", "SquashedFelt252Dict", "Nullable"}
    \cup UintFamilies \cup SintFamilies \cup StarknetFamilies
ZstContainerArm == {"NonZero", "Uninitialized", "Snapshot"}

is_zst(self, reg) ==
    LET f == self.fam IN
    IF f \in ZstCounterArm THEN OkB(FALSE)
    ELSE IF f = "BuiltinCosts" THEN OkB(FALSE)
    ELSE IF f \in ZstTokenArm THEN OkB(TRUE)
    ELSE IF f \in ZstNormalArm THEN OkB(FALSE)
    ELSE IF f \in ZstContainerArm THEN is_zst_inner(self, reg)
    ELSE IF f = "Enum" THEN is_zst_enum(self, reg)
    ELSE IF f = "Struct" THEN is_zst_struct(self, reg)
    ELSE IF f = "BoundedInt" THEN OkB(FALSE)
    ELSE IF f = "Const" THEN is_zst_inner(self, reg)
    ELSE IF f = "Span" THEN ErrB(native_panic)
    ELSE IF f \in CircuitFamilies THEN OkB(circuit_is_zst(self))
    ELSE IF f = "IntRange" THEN is_zst_inner(self, reg)
    ELSE ErrB(native_panic)   \* Blake, QM31

\* the Enum arm of layout: try_fold over info.variants from variant i on
enum_fold(variants, i, tag_layout, acc, reg) ==
    IF i > Len(variants) THEN OkL(acc)
    ELSE LET r == layout_of(variants[i], reg)
         IN  IF ~r.ok THEN r
             ELSE LET l == extend(tag_layout, r.val)
                  IN  enum_fold(variants, i + 1, tag_layout,
                                Layout(Max(acc.size, l.size),
                                       Max(acc.align, l.align)), reg)

\* an Enum arm of layout that leaves out the tag
layout_enum_untagged(self, reg) ==
    enum_fold(self.ty, 1, LayoutUnit, LayoutUnit, reg)

layout_enum(self, reg) ==
    LET tag_layout ==
            get_integer_layout(
                trailing_zeros(next_power_of_two(Len(self.ty))))
    IN  enum_fold(self.ty, 1, tag_layout, tag_layout, reg)

\* the Struct arm of layout: try_fold over info.members from member i on,
\* acc = None while has = FALSE
struct_fold(members, i, has, acc, reg) ==
    IF i > Len(members) THEN OkL(IF has THEN acc ELSE Layout(0, 1))
    ELSE LET r == layout_of(members[i], reg)
         IN  IF ~r.ok THEN r
             ELSE struct_fold(members, i + 1, TRUE,
                              IF has THEN extend(acc, r.val) ELSE r.val, reg)

\* a Struct arm of layout that starts the fold from a word-aligned layout
layout_struct_word_aligned(self, reg) ==
    struct_fold(self.ty, 1, TRUE, Layout(0, 8), reg)

layout_struct(self, reg) == struct_fold(self.ty, 1, FALSE, Layout(0, 1), reg)

\* a wrapper arm of layout that treats the wrapper as a pointer
layout_wrapper_pointer(self, reg) == OkL(LayoutPtr)

\* the NonZero, Uninitialized, Snapshot and Const arms of layout
layout_wrapper(self, reg) == layout_of(self.ty[1], reg)

\* the IntRange arm of layout
layout_int_range(self, reg) ==
    LET inner == layout_of(self.ty[1], reg)
    IN  IF inner.ok THEN OkL(extend(inner.val, inner.val)) ELSE inner

\* the bit width of Uint{n} and Sint{n}
IntWidth(f) ==
    IF f \in {"Uint8", "Sint8"} THEN 8
    ELSE IF f \in {"Uint16", "Sint16"} THEN 16
    ELSE IF f \in {"Uint32", "Sint32"} THEN 32
    ELSE IF f \in {"Uint64", "Sint64"} THEN 64
    ELSE 128

\* the Starknet arm of layout
layout_starknet(f) ==
    IF f \in StarknetFeltFamilies THEN get_integer_layout(252)
    ELSE IF f = "Starknet.Secp256Point"
         THEN extend(extend(get_integer_layout(256), get_integer_layout(256)),
                     get_integer_layout(1))
    ELSE LayoutPtr   \* System, Sha256StateHandle

\* the arms of layout that use neither the registry nor the type's info
layout_plain(f) ==
    IF f = "Array"
    THEN OkL(extend(extend(extend(LayoutPtr, get_integer_layout(32)),
                           get_integer_layout(32)), get_integer_layout(32)))
    ELSE IF f \in {"Bitwise", "EcOp", "RangeCheck", "Pedersen", "Poseidon",
                   "SegmentArena"} THEN OkL(LayoutU64)
    ELSE IF f \in {"Box", "Nullable", "BuiltinCosts", "Felt252Dict",
                   "SquashedFelt252Dict"} THEN OkL(LayoutPtr)
    ELSE IF f = "EcPoint" THEN OkL(layout_repeat(get_integer_layout(252), 2))
    ELSE IF f = "EcState" THEN OkL(layout_repeat(get_integer_layout(252), 4))
    ELSE IF f = "Felt252" THEN OkL(get_integer_layout(252))
    ELSE IF f \in {"GasBuiltin", "RangeCheck96"} THEN OkL(get_integer_layout(64))
    ELSE IF f \in UintFamilies \cup SintFamilies
         THEN OkL(get_integer_layout(IntWidth(f)))
    ELSE IF f \in {"Uint128MulGuarantee", "Coupon"} THEN OkL(LayoutUnit)
    ELSE IF f = "Felt252DictEntry"
         THEN OkL(extend(extend(get_integer_layout(252), LayoutPtr), LayoutPtr))
    ELSE IF f = "Span" THEN ErrL(native_panic)
    ELSE IF f \in StarknetFamilies THEN OkL(layout_starknet(f))
    ELSE IF f = "Bytes31" THEN OkL(get_integer_layout(248))
    ELSE IF f \in CircuitFamilies THEN circuit_layout(f)
    ELSE ErrL(native_panic)   \* Blake, QM31

PlainLayouts == [f \in LeafFamilies |-> layout_plain(f)]

\* the BoundedInt arm of layout
layout_bounded_int(self) ==
    OkL(get_integer_layout(offset_bit_width(Range(self.lower, self.upper))))

\* the match of layout, before .pad_to_align()
layout_match(self, reg) ==
    LET f == self.fam IN
    IF f \in WrapperFamilies THEN layout_wrapper(self, reg)
    ELSE IF f = "Enum" THEN layout_enum(self, reg)
    ELSE IF f = "Struct" THEN layout_struct(self, reg)
    ELSE IF f = "BoundedInt" THEN layout_bounded_int(self)
    ELSE IF f = "IntRange" THEN layout_int_range(self, reg)
    ELSE PlainLayouts[f]

\* layout that returns the match result as it is, without .pad_to_align()
layout_unpadded(self, reg) == layout_match(self, reg)

layout(self, reg) ==
    LET r == layout_match(self, reg)
    IN  IF r.ok THEN OkL(pad_to_align(r.val)) ELSE r

\* the multi-variant Enum arm of is_memory_allocated: the loop from variant i on
enum_any_non_zst(variants, i, reg) ==
    IF i > Len(variants) THEN OkB(FALSE)
    ELSE LET r == is_zst_of(variants[i], reg)
         IN  IF ~r.ok THEN r
             ELSE IF ~r.val THEN OkB(TRUE)
             ELSE enum_any_non_zst(variants, i + 1, reg)

\* an Enum arm of is_memory_allocated that allocates every enum with a variant
is_memory_allocated_enum_any(self, reg) == OkB(Len(self.ty) >= 1)

is_memory_allocated_enum(self, reg) ==
    IF Len(self.ty) = 0 THEN OkB(FALSE)
    ELSE IF Len(self.ty) = 1 THEN is_memory_allocated_of(self.ty[1], reg)
    ELSE enum_any_non_zst(self.ty, 1, reg)

\* the Struct arm of is_memory_allocated: the loop from member i on
struct_any_memory_allocated(members, i, reg) ==
    IF i > Len(members) THEN OkB(FALSE)
    ELSE LET r == is_memory_allocated_of(members[i], reg)
         IN  IF ~r.ok THEN r
             ELSE IF r.val THEN OkB(TRUE)
             ELSE struct_any_memory_allocated(members, i + 1, reg)

\* a Struct arm of is_memory_allocated that does not look at the members
is_memory_allocated_struct_false(self, reg) == OkB(FALSE)

is_memory_allocated_struct(self, reg) ==
    struct_any_memory_allocated(self.ty, 1, reg)

\* Snapshot and Const arms of is_memory_allocated that do not look inside
is_memory_allocated_inner_false(self, reg) == OkB(FALSE)

\* the Snapshot and Const arms of is_memory_allocated
is_memory_allocated_inner(self, reg) == is_memory_allocated_of(self.ty[1], reg)

\* the NonZero and Uninitialized arms of is_memory_allocated
is_memory_allocated_nonzero(self, reg) == OkB(FALSE)

is_memory_allocated(self, reg) ==
    LET f == self.fam IN
    IF f = "Blake" \/ f = "QM31" THEN ErrB(native_panic)
    ELSE IF f = "NonZero" \/ f = "Uninitialized"
         THEN is_memory_allocated_nonzero(self, reg)
    ELSE IF f = "Enum" THEN is_memory_allocated_enum(self, reg)
    ELSE IF f = "Struct" THEN is_memory_allocated_struct(self, reg)
    ELSE IF f = "Snapshot" \/ f = "Const"
         THEN is_memory_allocated_inner(self, reg)
    ELSE OkB(FALSE)

\* range_of::<T>() for the unsigned and signed primitive of `bits` bits
range_of_unsigned(bits) ==
    Range(BigZero, BigAdd(BigSub(BigShl1(bits), BigOne), BigOne))
range_of_signed(bits) ==
    Range(BigNeg(BigShl1(bits - 1)),
          BigAdd(BigSub(BigShl1(bits - 1), BigOne), BigOne))

\* the arms of integer_range of the primitive integers, felt252 and bytes31
integer_range_plain(f) ==
    IF f \in UintFamilies THEN range_of_unsigned(IntWidth(f))
    ELSE IF f = "Felt252" THEN Range(BigZero, PRIME)
    ELSE IF f \in SintFamilies THEN range_of_signed(IntWidth(f))
    ELSE Range(BigZero, BigShl1(248))   \* Bytes31

PlainRangeFamilies == UintFamilies \cup SintFamilies \cup {"Felt252", "Bytes31"}
PlainRanges == [f \in PlainRangeFamilies |-> integer_range_plain(f)]

\* Const and NonZero arms of integer_range that fall into the `_` arm
integer_range_inner_rejected(self, reg) == ErrR("IntegerLikeTypeExpected")

\* the Const and NonZero arms of integer_range
integer_range_inner(self, reg) == integer_range_of(self.ty[1], reg)

\* a `_` arm of integer_range that answers with a range instead of the error
integer_range_other_unit(self, reg) == OkR(Range(BigZero, BigOne))

\* the arm of integer_range that Snapshot and Uninitialized fall into: `_`
integer_range_other(self, reg) == ErrR("IntegerLikeTypeExpected")

integer_range(self, reg) ==
    LET f == self.fam IN
    IF f \in PlainRangeFamilies THEN OkR(PlainRanges[f])
    ELSE IF f = "BoundedInt" THEN OkR(Range(self.lower, self.upper))
    ELSE IF f = "Const" \/ f = "NonZero" THEN integer_range_inner(self, reg)
    ELSE integer_range_other(self, reg)

is_bounded_int(self, reg) ==
    IF self.fam = "BoundedInt" THEN OkB(TRUE)
    ELSE IF self.fam = "NonZero"
         THEN (IF self.ty[1] \notin DOMAIN reg THEN ErrB("MissingType")
               ELSE is_bounded_int(reg[self.ty[1]], reg))
    ELSE OkB(FALSE)

is_felt252(self, reg) ==
    IF self.fam = "Felt252" THEN OkB(TRUE)
    ELSE IF self.fam = "NonZero"
         THEN (IF self.ty[1] \notin DOMAIN reg THEN ErrB("MissingType")
               ELSE is_felt252(reg[self.ty[1]], reg))
    ELSE OkB(FALSE)

\* variants(): Some(&info.variants) for an Enum, None otherwise
variants(self) ==
    IF self.fam = "Enum" THEN [some |-> TRUE, ids |-> self.ty]
    ELSE [some |-> FALSE, ids |-> <<>>]

\* per-family builders (types::uint8::build, types::r#struct::build, ...)
family_build(self, reg) == OkT(self.fam)

\* Const, Span, Blake and QM31 arms of build that lower like the other arms
build_unimplemented_lowered(self, reg) == OkT(self.fam)

\* the Const, Span, Blake and QM31 arms of build
build_unimplemented(self, reg) == ErrT(native_panic)

build(self, reg) ==
    IF self.fam \in {"Const", "Span", "Blake", "QM31"}
    THEN build_unimplemented(self, reg)
    ELSE family_build(self, reg)

\* ------------------------------------------------------------------------
\* Spec: the state of the compilation driver
\* ------------------------------------------------------------------------
Threads == {"t1", "t2"}
Contexts == {"c1", "c2"}
EnvValues == {"unset", "0", "1", "true"}

\* the programs handed to compile(): their type declarations in order
Programs ==
    {<<Plain("Felt252"), Desc("Struct", <<1, 1>>, BigZero, BigZero)>>,
     <<Plain("Uint8"), Desc("Const", <<1>>, BigZero, BigZero)>>,
     <<Plain("Span")>>,
     <<Plain("Blake")>>,
     <<Plain("Felt252"), Plain("QM31")>>}

PrepassFiles ==
    <<"dump-prepass.mlir", "dump-prepass-debug-valid.mlir",
      "dump-prepass-debug-pretty.mlir">>
PostpassFiles == <<"dump.mlir", "dump-debug-pretty.mlir", "dump-debug.mlir">>

NoResult == [ok |-> FALSE, val |-> "none", err |-> "none", at |-> "none"]
NotInvoked == {"not invoked"}

tvars == <<registry, table>>
dvars ==
    <<INITIALIZED, init_count, env, calls, pc, context, program, module,
      metadata, lowered_with, written, gate, verified, result>>
vars == <<registry, table, INITIALIZED, init_count, env, calls, pc, context,
          program, module, metadata, lowered_with, written, gate, verified,
          result>>

DriverInit ==
    /\ INITIALIZED = "uninit"
    /\ init_count = 0
    /\ env \in EnvValues
    /\ calls = 0
    /\ pc = [t \in Threads |-> "idle"]
    /\ context = [t \in Threads |-> "none"]
    /\ program = [t \in Threads |-> <<>>]
    /\ module = [t \in Threads |-> "none"]
    /\ metadata = [t \in Threads |-> {}]
    /\ lowered_with = [t \in Threads |-> NotInvoked]
    /\ written = [t \in Threads |-> <<>>]
    /\ gate = [t \in Threads |-> <<>>]
    /\ verified = [t \in Threads |-> "none"]
    /\ result = [t \in Threads |-> NoResult]

\* ------------------------------------------------------------------------
\* SpecTypes: the registry of one program, built declaration by declaration
\* ------------------------------------------------------------------------
Archs == {"x86_64", "aarch64"}

Classify(self, reg) ==
    [is_builtin |-> is_builtin(self),
     is_complex |-> [arch \in Archs |-> is_complex(self, reg, arch)],
     is_zst |-> is_zst(self, reg),
     layout |-> layout(self, reg),
     is_memory_allocated |-> is_memory_allocated(self, reg),
     integer_range |-> integer_range(self, reg)]

Ids == DOMAIN registry

\* the type declared last
Latest == Len(registry)

\* the ids an aggregate declared now may refer to: the two types declared last
Recent == {i \in Ids : i + 1 >= Latest}

\* member lists of a new aggregate: none, or at most MaxMembers recent ids
\* with the type declared last among them
IdSeqs ==
    {<<>>} \cup
    {ms \in UNION {[1..n -> Recent] : n \in 1..MaxMembers} :
        \E i \in DOMAIN ms : ms[i] = Latest}

CanDeclare == Len(registry) < MaxTypes

Declare(d) ==
    /\ registry' = Append(registry, d)
    /\ table' = Append(table, Classify(d, Append(registry, d)))
    /\ UNCHANGED dvars

DeclareLeaf ==
    /\ CanDeclare
    /\ \E d \in (IF registry = <<>> THEN LeafDescs ELSE SiblingLeafDescs) :
           Declare(d)

DeclareWrapper ==
    /\ CanDeclare
    /\ registry # <<>>
    /\ \E f \in WrapperFamilies :
           Declare(Desc(f, <<Latest>>, BigZero, BigZero))

DeclareIntRange ==
    /\ CanDeclare
    /\ registry # <<>>
    /\ Declare(Desc("IntRange", <<Latest>>, BigZero, BigZero))

DeclareStruct ==
    /\ CanDeclare
    /\ \E ms \in IdSeqs : Declare(Desc("Struct", ms, BigZero, BigZero))

DeclareEnum ==
    /\ CanDeclare
    /\ \E vs \in IdSeqs : Declare(Desc("Enum", vs, BigZero, BigZero))

TypesInit ==
    /\ registry = <<>>
    /\ table = <<>>
    /\ DriverInit
    /\ env = "unset"

TypesNext ==
    \/ DeclareLeaf
    \/ DeclareWrapper
    \/ DeclareIntRange
    \/ DeclareStruct
    \/ DeclareEnum

SpecTypes == TypesInit /\ [][TypesNext]_vars

\* ------------------------------------------------------------------------
\* Spec: NativeContext::compile, one action per step of the function body
\* ------------------------------------------------------------------------
\* a check-then-run cell that does not make a second caller wait
get_or_init_unsynchronized(cell) ==
    IF cell = "done" THEN "proceed" ELSE "run"

\* what OnceLock::get_or_init does for a caller that finds the cell in
\* state `cell`: run the closure, wait for the running one, or go on
get_or_init(cell) ==
    IF cell = "done" THEN "proceed"
    ELSE IF cell = "uninit" THEN "run"
    ELSE "wait"

\* MetadataStorage::new and MetadataStorage::insert
MetadataStorage_new == {}
insert(store, entry) == store \cup {entry}

\* let mut metadata = MetadataStorage::new();
\* metadata.insert(RuntimeBindingsMeta::default());
seed_runtime_bindings == insert(MetadataStorage_new, "RuntimeBindingsMeta")

\* a gas step that computes the GasMetadata and drops it
seed_gas_metadata_dropped(store) == store

\* metadata.insert(gas_metadata);
seed_gas_metadata(store) == insert(store, "GasMetadata")

\* crate::compile: the type declarations are lowered in registry order
RECURSIVE build_types(_, _)
build_types(reg, i) ==
    IF i > Len(reg) THEN OkT("lowered")
    ELSE LET r == build(reg[i], reg)
         IN  IF r.ok THEN build_types(reg, i + 1) ELSE r

crate_compile(prog) == build_types(prog, 1)

\* a gate that knows the value "1" only
dump_enabled_one(x) == x = "1"

\* the gate of both dumps: Ok(x) with x == "1" || x == "true"
dump_enabled(x) == x = "1" \/ x = "true"

\* the failures of the steps between the target triple and the module
BuildModuleErrors ==
    {"get_data_layout_rep", "OperationBuilder::build",
     "native_assert(op.verify())", "Module::from_operation"}

\* the failures that come after op.verify() was evaluated
VerifiedBefore == {"native_assert(op.verify())", "Module::from_operation"}

\* `?` on an Err, and native_assert!: compile returns the error
Fail(t, e) ==
    /\ result' = [result EXCEPT ![t] =
                     [ok |-> FALSE, val |-> "none", err |-> e, at |-> pc[t]]]
    /\ pc' = [pc EXCEPT ![t] = "idle"]

Goto(t, step) ==
    /\ pc' = [pc EXCEPT ![t] = step]
    /\ UNCHANGED result

\* a thread calls compile(&self, program, ..) on a context
Call(t) ==
    /\ pc[t] = "idle"
    /\ calls < MaxCalls
    /\ calls' = calls + 1
    /\ \E c \in Contexts : context' = [context EXCEPT ![t] = c]
    /\ \E p \in Programs : program' = [program EXCEPT ![t] = p]
    /\ module' = [module EXCEPT ![t] = "none"]
    /\ metadata' = [metadata EXCEPT ![t] = {}]
    /\ lowered_with' = [lowered_with EXCEPT ![t] = NotInvoked]
    /\ written' = [written EXCEPT ![t] = <<>>]
    /\ gate' = [gate EXCEPT ![t] = <<>>]
    /\ verified' = [verified EXCEPT ![t] = "none"]
    /\ result' = [result EXCEPT ![t] = NoResult]
    /\ pc' = [pc EXCEPT ![t] = "once"]
    /\ UNCHANGED <<INITIALIZED, init_count, env, registry, table>>

\* INITIALIZED.get_or_init(..): entering the cell
GetOrInit(t) ==
    /\ pc[t] = "once"
    /\ get_or_init(INITIALIZED) # "wait"
    /\ IF get_or_init(INITIALIZED) = "run"
       THEN INITIALIZED' = "running" /\ Goto(t, "init")
       ELSE UNCHANGED INITIALIZED /\ Goto(t, "target_triple")
    /\ UNCHANGED <<init_count, env, calls, context, program, module, metadata,
                   lowered_with, written, gate, verified,
                   registry, table>>

\* the closure: LLVM_InitializeAllTargets .. LLVM_InitializeAllAsmPrinters
InitializeTargets(t) ==
    /\ pc[t] = "init"
    /\ init_count' = init_count + 1
    /\ INITIALIZED' = "done"
    /\ Goto(t, "target_triple")
    /\ UNCHANGED <<env, calls, context, program, module, metadata,
                   lowered_with, written, gate, verified,
                   registry, table>>

\* get_target_triple() .. Module::from_operation(op)
BuildModule(t) ==
    /\ pc[t] = "target_triple"
    /\ \/ /\ module' = [module EXCEPT ![t] = "empty"]
          /\ verified' = [verified EXCEPT ![t] = "empty"]
          /\ Goto(t, "metadata")
       \/ /\ \E e \in BuildModuleErrors :
                /\ Fail(t, e)
                /\ verified' = [verified EXCEPT ![t] =
                                    IF e \in VerifiedBefore THEN "empty" ELSE @]
          /\ UNCHANGED module
    /\ UNCHANGED <<INITIALIZED, init_count, env, calls, context, program,
                   metadata, lowered_with, written, gate, registry, table>>

\* MetadataStorage::new() and the RuntimeBindingsMeta insertion
CreateMetadata(t) ==
    /\ pc[t] = "metadata"
    /\ metadata' = [metadata EXCEPT ![t] = seed_runtime_bindings]
    /\ Goto(t, "gas")
    /\ UNCHANGED <<INITIALIZED, init_count, env, calls, context, program,
                   module, lowered_with, written, gate, verified,
                   registry, table>>

\* GasMetadata::new(program, gas_metadata_config)? and its insertion
ComputeGas(t) ==
    /\ pc[t] = "gas"
    /\ \/ /\ metadata' = [metadata EXCEPT ![t] = seed_gas_metadata(@)]
          /\ Goto(t, "registry")
       \/ /\ Fail(t, "GasMetadataError")
          /\ UNCHANGED metadata
    /\ UNCHANGED <<INITIALIZED, init_count, env, calls, context, program,
                   module, lowered_with, written, gate, verified,
                   registry, table>>

\* ProgramRegistry::new(program)?
CreateRegistry(t) ==
    /\ pc[t] = "registry"
    /\ \/ Goto(t, "lower")
       \/ Fail(t, "ProgramRegistryError")
    /\ UNCHANGED <<INITIALIZED, init_count, env, calls, context, program,
                   module, metadata, lowered_with, written, gate, verified,
                   registry, table>>

\* crate::compile(&self.context, &module, program, &registry, &mut metadata, ..)?
Lower(t) ==
    /\ pc[t] = "lower"
    /\ lowered_with' = [lowered_with EXCEPT ![t] = metadata[t]]
    /\ LET r == crate_compile(program[t])
       IN  IF r.ok
           THEN /\ module' = [module EXCEPT ![t] = "lowered"]
                /\ Goto(t, "prepass_dump")
           ELSE /\ Fail(t, r.err)
                /\ UNCHANGED module
    /\ UNCHANGED <<INITIALIZED, init_count, env, calls, context, program,
                   metadata, written, gate, verified,
                   registry, table>>

\* a dump whose failed fs::write is dropped instead of returned with `?`
Dump_best_effort(t, files, next) ==
    /\ gate' = [gate EXCEPT ![t] = Append(@, env)]
    /\ IF dump_enabled(env)
       THEN /\ \E k \in 0..Len(files) :
                  written' = [written EXCEPT ![t] = @ \o SubSeq(files, 1, k)]
            /\ next
       ELSE /\ UNCHANGED written
            /\ next

\* a dump that decides by the value of the call's first read
Dump_first_read(t, files, next) ==
    /\ gate' = [gate EXCEPT ![t] = Append(@, env)]
    /\ IF dump_enabled(IF gate[t] = <<>> THEN env ELSE gate[t][1])
       THEN \E k \in 0..Len(files) :
               /\ written' = [written EXCEPT ![t] = @ \o SubSeq(files, 1, k)]
               /\ IF k = Len(files) THEN next ELSE Fail(t, "Io")
       ELSE /\ UNCHANGED written
            /\ next

\* a dump of three files: each fs::write may fail, after k files are written
Dump(t, files, next) ==
    /\ gate' = [gate EXCEPT ![t] = Append(@, env)]
    /\ IF dump_enabled(env)
       THEN \E k \in 0..Len(files) :
               /\ written' = [written EXCEPT ![t] = @ \o SubSeq(files, 1, k)]
               /\ IF k = Len(files) THEN next ELSE Fail(t, "Io")
       ELSE /\ UNCHANGED written
            /\ next

\* the first read of NATIVE_DEBUG_DUMP and the pre-pass dump
DumpPrepass(t) ==
    /\ pc[t] = "prepass_dump"
    /\ Dump(t, PrepassFiles, Goto(t, "passes"))
    /\ UNCHANGED <<INITIALIZED, init_count, env, calls, context, program,
                   module, metadata, lowered_with, verified, registry, table>>

\* run_pass_manager(&self.context, &mut module)?
RunPassManager(t) ==
    /\ pc[t] = "passes"
    /\ \/ /\ module' = [module EXCEPT ![t] = "optimized"]
          /\ Goto(t, "postpass_dump")
       \/ /\ Fail(t, "PassError")
          /\ UNCHANGED module
    /\ UNCHANGED <<INITIALIZED, init_count, env, calls, context, program,
                   metadata, lowered_with, written, gate, verified,
                   registry, table>>

\* Ok(NativeModule::new(module, registry, metadata))
Return(t) ==
    /\ result' = [result EXCEPT ![t] =
                     [ok |-> TRUE, val |-> "NativeModule", err |-> "none",
                      at |-> "return"]]
    /\ pc' = [pc EXCEPT ![t] = "idle"]

\* the second read of NATIVE_DEBUG_DUMP, the post-pass dump and the return
DumpPostpass(t) ==
    /\ pc[t] = "postpass_dump"
    /\ Dump(t, PostpassFiles, Return(t))
    /\ UNCHANGED <<INITIALIZED, init_count, env, calls, context, program,
                   module, metadata, lowered_with, verified, registry, table>>

\* another part of the process, or its parent, sets NATIVE_DEBUG_DUMP
SetEnv ==
    /\ \E v \in EnvValues \ {env} : env' = v
    /\ UNCHANGED <<INITIALIZED, init_count, calls, pc, context, program,
                   module, metadata, lowered_with, written, result, registry,
                   table, gate, verified>>

Init ==
    /\ registry = <<>>
    /\ table = <<>>
    /\ DriverInit

Next ==
    \/ \E t \in Threads : Call(t)
    \/ \E t \in Threads : GetOrInit(t)
    \/ \E t \in Threads : InitializeTargets(t)
    \/ \E t \in Threads : BuildModule(t)
    \/ \E t \in Threads : CreateMetadata(t)
    \/ \E t \in Threads : ComputeGas(t)
    \/ \E t \in Threads : CreateRegistry(t)
    \/ \E t \in Threads : Lower(t)
    \/ \E t \in Threads : DumpPrepass(t)
    \/ \E t \in Threads : RunPassManager(t)
    \/ \E t \in Threads : DumpPostpass(t)
    \/ SetEnv

Spec == Init /\ [][Next]_vars

\* ------------------------------------------------------------------------
\* Properties of the classifier, over SpecTypes
\* ------------------------------------------------------------------------
\* the type a wrapper or IntRange declared as id i refers to
inner_of(i) == registry[i].ty[1]

\* C1: every layout the classifier returns is pad_to_align-normalized: its
\* size is a multiple of its alignment, for every family and every nesting
\* of structs, enums and wrappers.
C1_LayoutPadded ==
    \A i \in DOMAIN table :
        table[i].layout.ok =>
            /\ table[i].layout.val.size % table[i].layout.val.align = 0
            /\ table[i].layout.val = pad_to_align(table[i].layout.val)

\* an aggregate whose match result is not yet padded
C1_Witness ==
    \E i \in DOMAIN table :
        /\ registry[i].fam \in {"Struct", "Enum"}
        /\ table[i].layout.ok
        /\ layout_match(registry[i], registry).val # table[i].layout.val

\* C2: where is_zst and layout both succeed, is_zst is true exactly when the
\* layout has size 0.
C2_ZstIffZeroSize ==
    \A i \in DOMAIN table :
        (table[i].is_zst.ok /\ table[i].layout.ok) =>
            (table[i].is_zst.val <=> table[i].layout.val.size = 0)

\* an IntRange on a one-value BoundedInt that is not zero-sized, next to a
\* zero-sized struct
C2_Witness ==
    /\ \E i \in DOMAIN table :
          /\ registry[i].fam = "IntRange"
          /\ registry[inner_of(i)].fam = "BoundedInt"
          /\ offset_bit_width(Range(registry[inner_of(i)].lower,
                                    registry[inner_of(i)].upper)) = 1
          /\ table[i].is_zst = OkB(FALSE)
          /\ table[i].layout.ok /\ table[i].layout.val.size > 0
    /\ \E j \in DOMAIN table :
          /\ registry[j].fam = "Struct"
          /\ table[j].is_zst = OkB(TRUE)
          /\ table[j].layout.ok /\ table[j].layout.val.size = 0

\* C3: is_complex, is_zst and is_memory_allocated return a boolean, never an
\* error, for every declared type.
C3_PredicatesTotal ==
    \A i \in DOMAIN table :
        /\ \A arch \in Archs : table[i].is_complex[arch].ok
        /\ table[i].is_zst.ok
        /\ table[i].is_memory_allocated.ok

\* C4: the layout of a NonZero, Snapshot, Uninitialized or Const is exactly
\* the result of layout on its inner type, value or error.
C4_LayoutTransparent ==
    \A i \in DOMAIN table :
        registry[i].fam \in WrapperFamilies =>
            table[i].layout = table[inner_of(i)].layout

\* a wrapper of a wrapper of a type that has a layout
C4_Witness ==
    \E i \in DOMAIN table :
        /\ registry[i].fam \in WrapperFamilies
        /\ registry[inner_of(i)].fam \in WrapperFamilies
        /\ registry[inner_of(i)].fam # registry[i].fam
        /\ table[i].layout.ok
        /\ table[i].layout.val.size > 8

\* C5: is_complex of a NonZero, Snapshot, Uninitialized or Const succeeds and
\* equals is_complex of the inner type whenever that succeeds.
C5_IsComplexTransparent ==
    \A i \in DOMAIN table :
        registry[i].fam \in WrapperFamilies =>
            \A arch \in Archs :
                table[inner_of(i)].is_complex[arch].ok =>
                    table[i].is_complex[arch] = table[inner_of(i)].is_complex[arch]

\* C6 as stated: is_memory_allocated of each of the four wrappers equals
\* is_memory_allocated of the inner type.
C6_MemoryAllocatedTransparent ==
    \A i \in DOMAIN table :
        registry[i].fam \in WrapperFamilies =>
            table[i].is_memory_allocated = table[inner_of(i)].is_memory_allocated

\* C6: is_memory_allocated of a Snapshot or Const is the result for the inner
\* type; is_memory_allocated of a NonZero or Uninitialized is Ok(false)
\* whatever the inner type.
C6_MemoryAllocatedWrappers ==
    \A i \in DOMAIN table :
        /\ registry[i].fam \in {"Snapshot", "Const"} =>
              table[i].is_memory_allocated =
                  table[inner_of(i)].is_memory_allocated
        /\ registry[i].fam \in {"NonZero", "Uninitialized"} =>
              table[i].is_memory_allocated = OkB(FALSE)

\* a Snapshot or Const of a multi-variant enum with a non-ZST variant
C6_Witness ==
    \E i \in DOMAIN table :
        /\ registry[i].fam \in {"Snapshot", "Const"}
        /\ registry[inner_of(i)].fam = "Enum"
        /\ Len(registry[inner_of(i)].ty) >= 2
        /\ table[i].is_memory_allocated = OkB(TRUE)

\* C7 as stated: integer_range of each of the four wrappers is what
\* integer_range returns for the inner type.
C7_IntegerRangeTransparent ==
    \A i \in DOMAIN table :
        registry[i].fam \in WrapperFamilies =>
            table[i].integer_range = table[inner_of(i)].integer_range

\* C7: integer_range of a NonZero or Const is what integer_range returns for
\* the inner type; integer_range of a Snapshot or Uninitialized is the error
\* IntegerLikeTypeExpected whatever the inner type.
C7_IntegerRangeWrappers ==
    \A i \in DOMAIN table :
        /\ registry[i].fam \in {"NonZero", "Const"} =>
              table[i].integer_range = table[inner_of(i)].integer_range
        /\ registry[i].fam \in {"Snapshot", "Uninitialized"} =>
              table[i].integer_range = ErrR("IntegerLikeTypeExpected")

\* a NonZero or Const of an integer-like type, with its range
C7_Witness ==
    \E i \in DOMAIN table :
        /\ registry[i].fam \in {"NonZero", "Const"}
        /\ table[i].integer_range.ok
        /\ BigLt(table[i].integer_range.val.lower, BigZero)

\* ------------------------------------------------------------------------
\* Properties of compile, over Spec
\* ------------------------------------------------------------------------
HasUnimplemented(p) ==
    \E i \in DOMAIN p : p[i].fam \in {"Const", "Span", "Blake", "QM31"}

\* the steps of compile after crate::compile returned Ok
AfterLowering == {"prepass_dump", "passes", "postpass_dump"}

\* the steps of compile after INITIALIZED.get_or_init returned
AfterOnce ==
    {"target_triple", "metadata", "gas", "registry", "lower"} \cup AfterLowering

\* C8: build of a Const, Span, Blake or QM31 returns the error
\* UnsupportedType, and a compile() of a program with such a type never
\* gets past lowering: no pass pipeline, no module returned, and when
\* lowering was invoked the call has returned UnsupportedType from it.
C8_UnsupportedTypeStopsCompile ==
    \A t \in Threads :
        LET p == program[t] IN
        /\ \A i \in DOMAIN p :
              p[i].fam \in {"Const", "Span", "Blake", "QM31"} =>
                  build(p[i], p) = ErrT("UnsupportedType")
        /\ HasUnimplemented(p) =>
              /\ pc[t] \notin AfterLowering
              /\ module[t] \notin {"lowered", "optimized"}
              /\ ~result[t].ok
              /\ lowered_with[t] # NotInvoked =>
                    /\ pc[t] = "idle"
                    /\ result[t].err = "UnsupportedType"
                    /\ result[t].at = "lower"

\* a compile() that invoked lowering on a program with such a type
C8_Witness ==
    \E t \in Threads :
        /\ HasUnimplemented(program[t])
        /\ lowered_with[t] # NotInvoked
        /\ result[t].err = "UnsupportedType"

\* C9: when crate::compile is invoked the call's metadata store holds the
\* RuntimeBindingsMeta and the GasMetadata; the store starts fresh in each
\* call; lowering is not invoked when GasMetadata::new or
\* ProgramRegistry::new failed.
C9_MetadataSeededBeforeLowering ==
    \A t \in Threads :
        /\ pc[t] = "gas" => metadata[t] = {"RuntimeBindingsMeta"}
        /\ pc[t] = "lower" =>
              {"RuntimeBindingsMeta", "GasMetadata"} \subseteq metadata[t]
        /\ lowered_with[t] # NotInvoked =>
              {"RuntimeBindingsMeta", "GasMetadata"} \subseteq lowered_with[t]
        /\ result[t].at \in {"gas", "registry"} => lowered_with[t] = NotInvoked

\* a second call of a thread has invoked lowering
C9_Witness ==
    \E t \in Threads :
        /\ calls >= 2
        /\ pc[CHOOSE u \in Threads : u # t] = "idle"
        /\ result[CHOOSE u \in Threads : u # t] = NoResult
        /\ lowered_with[t] # NotInvoked

\* C10: the LLVM target initialization block runs exactly once in the
\* process, and a compile() call is past get_or_init only when that one run
\* has completed.
C10_TargetsInitializedOnce ==
    /\ init_count <= 1
    /\ \A t \in Threads :
          (pc[t] \in AfterOnce \/ result[t] # NoResult) =>
              (INITIALIZED = "done" /\ init_count = 1)

\* two concurrent calls on two contexts, both past get_or_init
C10_Witness ==
    \E t, u \in Threads :
        /\ t # u
        /\ context[t] # context[u]
        /\ pc[t] \in AfterOnce
        /\ pc[u] \in AfterOnce

\* the steps at which a call has its module in the context and has not
\* finished the pass pipeline
Mutating == {"metadata", "gas", "registry", "lower", "prepass_dump", "passes"}

\* C11: two calls on the same NativeContext are never both inside the
\* context-mutating part of compile (module built, pass pipeline not done).
C11_SharedContextSerialized ==
    \A t, u \in Threads :
        (t # u /\ context[t] = context[u]) =>
            ~(pc[t] \in Mutating /\ pc[u] \in Mutating)

\* the file names in a sequence of written files
Files(w) == {w[i] : i \in DOMAIN w}

\* C12: a successful compile() whose two reads of NATIVE_DEBUG_DUMP gave one
\* value wrote exactly the six dump files when the value is "1" or "true"
\* and no file otherwise; pre-pass files are written only after lowering
\* and before the pass pipeline, post-pass files only after the pass
\* pipeline succeeded.
C12_DumpGating ==
    \A t \in Threads :
        /\ (result[t].ok /\ Len(gate[t]) = 2 /\ gate[t][1] = gate[t][2]) =>
              written[t] = IF gate[t][1] \in {"1", "true"}
                           THEN PrepassFiles \o PostpassFiles
                           ELSE <<>>
        /\ result[t].ok => Len(gate[t]) = 2
        /\ pc[t] \in {"once", "init", "target_triple", "metadata", "gas",
                      "registry", "lower", "prepass_dump"} => written[t] = <<>>
        /\ pc[t] \in {"passes", "postpass_dump"} =>
              written[t] \in {<<>>, PrepassFiles}
        /\ Files(written[t]) # {} => module[t] \in {"lowered", "optimized"}
        /\ Files(written[t]) \cap Files(PostpassFiles) # {} =>
              (module[t] = "optimized" /\ pc[t] = "idle")

\* one call wrote the six files under "true", another none with the
\* variable unset
C12_Witness ==
    \E t, u \in Threads :
        /\ result[t].ok /\ gate[t] = <<"true", "true">>
        /\ Len(written[t]) = 6
        /\ result[u].ok /\ gate[u] = <<"unset", "unset">>
        /\ written[u] = <<>>

\* C13: a failed step makes compile() return that step's error with no
\* later step executed and no module returned; a failed pre-pass write
\* keeps the pass pipeline from running, a failed post-pass write returns
\* Io after the passes succeeded.
C13_FailFast ==
    \A t \in Threads :
        LET r == result[t] IN
        /\ r.ok => (r.at = "return" /\ module[t] = "optimized"
                    /\ Len(written[t]) \in {0, 3, 6})
        /\ pc[t] \in {"passes", "postpass_dump"} => Len(written[t]) \in {0, 3}
        /\ (r # NoResult /\ ~r.ok) =>
              /\ pc[t] = "idle"
              /\ r.val = "none"
              /\ r.at \in {"target_triple", "gas", "registry", "lower",
                           "prepass_dump", "passes", "postpass_dump"}
              /\ r.at = "target_triple" =>
                    (r.err \in BuildModuleErrors /\ module[t] = "none"
                     /\ metadata[t] = {} /\ lowered_with[t] = NotInvoked)
              /\ r.at = "gas" =>
                    (r.err = "GasMetadataError" /\ lowered_with[t] = NotInvoked
                     /\ metadata[t] = {"RuntimeBindingsMeta"})
              /\ r.at = "registry" =>
                    (r.err = "ProgramRegistryError"
                     /\ lowered_with[t] = NotInvoked)
              /\ r.at \in {"target_triple", "gas", "registry", "lower"} =>
                    (module[t] \in {"none", "empty"} /\ gate[t] = <<>>
                     /\ written[t] = <<>>)
              /\ r.at = "prepass_dump" =>
                    (r.err = "Io" /\ module[t] = "lowered" /\ Len(gate[t]) = 1
                     /\ Len(written[t]) < 3)
              /\ r.at = "passes" =>
                    (r.err = "PassError" /\ module[t] = "lowered"
                     /\ Len(gate[t]) = 1 /\ Len(written[t]) \in {0, 3})
              /\ r.at = "postpass_dump" =>
                    (r.err = "Io" /\ module[t] = "optimized"
                     /\ Len(written[t]) \in {0, 1, 2, 3, 4, 5})

\* a call returned Io from a post-pass write after its passes succeeded,
\* another returned Io from a pre-pass write
C13_Witness ==
    \E t, u \in Threads :
        /\ result[t].at = "postpass_dump" /\ result[t].err = "Io"
        /\ module[t] = "optimized"
        /\ result[u].at = "prepass_dump" /\ result[u].err = "Io"
        /\ module[u] = "lowered"

\* C14: once lowering has completed, the driver has verified the populated
\* module before the pre-pass dump and the pass pipeline.
C14_PopulatedModuleVerified ==
    \A t \in Threads :
        (pc[t] \in AfterLowering \/ result[t].at \in AfterLowering
            \/ result[t].ok) =>
                verified[t] = "populated"

\* ------------------------------------------------------------------------
\* Properties of the classifier, over SpecTypes (continued)
\* ------------------------------------------------------------------------
\* the ids a declared type refers to
refs(i) == {registry[i].ty[j] : j \in DOMAIN registry[i].ty}

\* the type declared as id i is integer-like: a numeric family, Felt252,
\* Bytes31, BoundedInt, or a Const or NonZero of an integer-like type
RECURSIVE IntegerLike(_)
IntegerLike(i) ==
    \/ registry[i].fam \in
          {"Uint8", "Uint16", "Uint32", "Uint64", "Uint128", "Sint8", "Sint16",
           "Sint32", "Sint64", "Sint128", "Felt252", "Bytes31", "BoundedInt"}
    \/ /\ registry[i].fam \in {"Const", "NonZero"}
       /\ IntegerLike(inner_of(i))

\* C15: integer_range succeeds exactly for the integer-like types and
\* returns IntegerLikeTypeExpected for every other; a BoundedInt returns its
\* own range; every returned range has lower < upper.
C15_IntegerRangeFamilies ==
    \A i \in DOMAIN table :
        LET r == table[i].integer_range IN
        /\ r.ok <=> IntegerLike(i)
        /\ ~r.ok => r.err = "IntegerLikeTypeExpected"
        /\ registry[i].fam = "BoundedInt" =>
              r = OkR(Range(registry[i].lower, registry[i].upper))
        /\ r.ok => BigLt(r.val.lower, r.val.upper)

\* a Const of a NonZero of a BoundedInt has the BoundedInt's range
C15_Witness ==
    \E i \in DOMAIN table :
        /\ registry[i].fam = "Const"
        /\ registry[inner_of(i)].fam = "NonZero"
        /\ registry[inner_of(inner_of(i))].fam = "BoundedInt"
        /\ table[i].integer_range.ok
        /\ table[i].integer_range.val.lower = registry[inner_of(inner_of(i))].lower

\* C16: is_builtin is true exactly for the thirteen builtin families, by
\* the type's own family: false for Uint128MulGuarantee and for a wrapper
\* of a builtin.
C16_IsBuiltinSet ==
    \A i \in DOMAIN table :
        table[i].is_builtin =
            (registry[i].fam \in
                {"Bitwise", "EcOp", "GasBuiltin", "BuiltinCosts", "RangeCheck",
                 "RangeCheck96", "Pedersen", "Poseidon", "Coupon",
                 "Starknet.System", "SegmentArena", "Circuit.AddMod",
                 "Circuit.MulMod"})

\* a wrapper of a wrapper of a builtin is not a builtin
C16_Witness ==
    \E i \in DOMAIN table :
        /\ registry[i].fam \in WrapperFamilies
        /\ registry[inner_of(i)].fam \in WrapperFamilies
        /\ table[inner_of(inner_of(i))].is_builtin
        /\ ~table[i].is_builtin

\* C17: for an enum E, is_complex(E) is false when E is a ZST; when E is not
\* a ZST it is true for two or more variants and is_complex of the variant
\* for one variant.
C17_IsComplexEnum ==
    \A i \in DOMAIN table :
        (registry[i].fam = "Enum" /\ table[i].is_zst.ok) =>
            \A arch \in Archs :
                IF table[i].is_zst.val
                THEN table[i].is_complex[arch] = OkB(FALSE)
                ELSE IF Len(registry[i].ty) >= 2
                THEN table[i].is_complex[arch] = OkB(TRUE)
                ELSE table[i].is_complex[arch] =
                         table[registry[i].ty[1]].is_complex[arch]

\* the four cases of the statement in which is_memory_allocated is true
MemoryAllocatedCase(i) ==
    \/ /\ registry[i].fam = "Enum"
       /\ Len(registry[i].ty) >= 2
       /\ \E v \in refs(i) : table[v].is_zst = OkB(FALSE)
    \/ /\ registry[i].fam = "Enum"
       /\ Len(registry[i].ty) = 1
       /\ table[registry[i].ty[1]].is_memory_allocated = OkB(TRUE)
    \/ /\ registry[i].fam = "Struct"
       /\ \E m \in refs(i) : table[m].is_memory_allocated = OkB(TRUE)
    \/ /\ registry[i].fam = "Snapshot"
       /\ table[inner_of(i)].is_memory_allocated = OkB(TRUE)

\* the type declared as id i is, or refers through any path to, a type of
\* one of the families fams
RECURSIVE Reaches(_, _)
Reaches(i, fams) ==
    \/ registry[i].fam \in fams
    \/ \E m \in refs(i) : Reaches(m, fams)

\* C18 as stated: wherever is_memory_allocated returns a boolean, it is true
\* exactly in the four cases (multi-variant enum with a non-ZST variant,
\* single-variant enum, struct member, Snapshot).
C18_MemoryAllocatedIff ==
    \A i \in DOMAIN table :
        table[i].is_memory_allocated.ok =>
            (table[i].is_memory_allocated.val <=> MemoryAllocatedCase(i))

\* C18: wherever is_memory_allocated returns a boolean, it is true exactly
\* in the four cases or for a Const of a memory-allocated type; it returns
\* an error, UnsupportedType, only for a type that is or contains a Span,
\* Blake or QM31.
C18_MemoryAllocatedIffWithConst ==
    \A i \in DOMAIN table :
        LET r == table[i].is_memory_allocated IN
        /\ r.ok =>
              (r.val <=>
                  \/ MemoryAllocatedCase(i)
                  \/ /\ registry[i].fam = "Const"
                     /\ table[inner_of(i)].is_memory_allocated = OkB(TRUE))
        /\ ~r.ok =>
              (r.err = "UnsupportedType" /\ Reaches(i, {"Span", "Blake", "QM31"}))

\* a struct that holds an enum of two felt252 variants is memory-allocated
C18_Witness ==
    \E i \in DOMAIN table :
        /\ registry[i].fam = "Struct"
        /\ table[i].is_memory_allocated = OkB(TRUE)
        /\ \E e \in refs(i) :
              /\ registry[e].fam = "Enum"
              /\ Len(registry[e].ty) = 2
              /\ \A v \in refs(e) : registry[v].fam = "Felt252"
              /\ table[e].is_memory_allocated = OkB(TRUE)

\* C19: a struct is a ZST iff every member is; an enum is a ZST iff it has
\* no variant or one variant that is a ZST, never with two or more
\* variants; NonZero, Snapshot, Uninitialized and Const have the is_zst of
\* their inner type.
C19_IsZstAggregates ==
    \A i \in DOMAIN table :
        LET z == table[i].is_zst IN
        /\ registry[i].fam = "Struct" =>
              (z = OkB(TRUE) <=> \A m \in refs(i) : table[m].is_zst = OkB(TRUE))
        /\ registry[i].fam = "Enum" =>
              IF Len(registry[i].ty) = 0 THEN z = OkB(TRUE)
              ELSE IF Len(registry[i].ty) = 1
              THEN z = table[registry[i].ty[1]].is_zst
              ELSE z = OkB(FALSE)
        /\ registry[i].fam \in WrapperFamilies => z = table[inner_of(i)].is_zst

\* a struct of one ZST member is a ZST, and an enum of two such structs is
\* not
C19_Witness ==
    \E i \in DOMAIN table :
        /\ registry[i].fam = "Enum"
        /\ Len(registry[i].ty) = 2
        /\ table[i].is_zst = OkB(FALSE)
        /\ \A v \in refs(i) :
              /\ registry[v].fam = "Struct"
              /\ Len(registry[v].ty) = 1
              /\ table[v].is_zst = OkB(TRUE)

\* the bits of the tag of an enum of k variants: log2(next_power_of_two(k))
TagBits(k) == IF k = 0 THEN 0 ELSE IntBits(k - 1)

SetMax(S) == CHOOSE x \in S : \A y \in S : y <= x

\* C20: the layout of an enum of k variants whose layouts exist is, before
\* the final padding, size = max(tag.size, max over variants of
\* round_up(tag.size, align_i) + size_i), align = max(tag.align, max align_i)
\* with a tag of log2(next_power_of_two(k)) bits; so it holds every variant
\* at its payload offset and is aligned for every variant.
C20_EnumLayout ==
    \A i \in DOMAIN table :
        (registry[i].fam = "Enum" /\ \A v \in refs(i) : table[v].layout.ok) =>
            LET k == Len(registry[i].ty)
                tag == get_integer_layout(TagBits(k))
                vs == {table[v].layout.val : v \in refs(i)}
                raw == Layout(
                    SetMax({tag.size} \cup
                           {round_up(tag.size, v.align) + v.size : v \in vs}),
                    SetMax({tag.align} \cup {v.align : v \in vs}))
            IN  /\ k <= 1 => tag = Layout(0, 1)
                /\ k = 2 => tag = Layout(1, 1)
                /\ table[i].layout = OkL(pad_to_align(raw))
                /\ \A v \in vs :
                      /\ table[i].layout.val.size >=
                            round_up(tag.size, v.align) + v.size
                      /\ table[i].layout.val.align >= v.align

\* an enum of two variants with different layouts
C20_Witness ==
    \E i \in DOMAIN table :
        /\ registry[i].fam = "Enum"
        /\ Len(registry[i].ty) = 2
        /\ table[i].layout.ok
        /\ table[registry[i].ty[1]].layout.val.size >
              table[registry[i].ty[2]].layout.val.size
        /\ table[registry[i].ty[2]].layout.val.size > 0

\* the families of the members of the struct declared as id i, in order
member_families(i) == [j \in DOMAIN registry[i].ty |-> registry[registry[i].ty[j]].fam]

\* the size of a struct after its first n members: member n is placed at
\* round_up(size after n - 1 members, align of member n)
RECURSIVE placed_size(_, _)
placed_size(i, n) ==
    IF n = 0 THEN 0
    ELSE LET m == table[registry[i].ty[n]].layout.val
         IN  round_up(placed_size(i, n - 1), m.align) + m.size

\* C21: the layout of a struct whose member layouts exist places each
\* member, in declaration order, at the current size rounded up to the
\* member's alignment, has the largest member alignment (1 with no member),
\* and is padded to that alignment; the empty struct has layout (0, 1),
\* struct {u8} (1, 1), struct {u8, u16} (4, 2) and struct {u16, u8} (4, 2).
C21_StructLayout ==
    \A i \in DOMAIN table :
        (registry[i].fam = "Struct" /\ \A m \in refs(i) : table[m].layout.ok) =>
            LET raw == Layout(placed_size(i, Len(registry[i].ty)),
                              SetMax({1} \cup {table[m].layout.val.align :
                                                  m \in refs(i)}))
                l == table[i].layout
            IN  /\ l = OkL(pad_to_align(raw))
                /\ member_families(i) = <<>> => l = OkL(Layout(0, 1))
                /\ member_families(i) = <<"Uint8">> => l = OkL(Layout(1, 1))
                /\ member_families(i) = <<"Uint8", "Uint16">> =>
                      l = OkL(Layout(4, 2))
                /\ member_families(i) = <<"Uint16", "Uint8">> =>
                      l = OkL(Layout(4, 2))

\* struct {u8, u16}: the second member is placed at offset 2
C21_Witness ==
    \E i \in DOMAIN table :
        /\ registry[i].fam = "Struct"
        /\ member_families(i) = <<"Uint8", "Uint16">>
        /\ placed_size(i, 1) = 1
        /\ table[i].layout = OkL(Layout(4, 2))

\* the families whose values are field elements
FieldSized ==
    {"Felt252", "Bytes31", "Starknet.ClassHash", "Starknet.ContractAddress",
     "Starknet.StorageAddress", "Starknet.StorageBaseAddress"}

\* C22: is_complex of a BoundedInt is, on x86-64, true iff the offset bit
\* width of its range exceeds 128, that is iff upper - lower >= 2^128 (false
\* at 128 bits, true at 129), and false on AArch64; Felt252, Bytes31 and the
\* Starknet address and hash types are complex on x86-64 and not on AArch64.
C22_IsComplexTargetSplit ==
    \A i \in DOMAIN table :
        LET c == table[i].is_complex
            r == Range(registry[i].lower, registry[i].upper)
        IN  /\ registry[i].fam = "BoundedInt" =>
                  /\ c["x86_64"] = OkB(offset_bit_width(r) > 128)
                  /\ c["x86_64"] =
                        OkB(~BigLt(BigSub(r.upper, r.lower), BigShl1(128)))
                  /\ offset_bit_width(r) = 128 => c["x86_64"] = OkB(FALSE)
                  /\ offset_bit_width(r) = 129 => c["x86_64"] = OkB(TRUE)
                  /\ c["aarch64"] = OkB(FALSE)
            /\ registry[i].fam \in FieldSized =>
                  /\ c["x86_64"] = OkB(TRUE)
                  /\ c["aarch64"] = OkB(FALSE)

\* a BoundedInt of 129 offset bits, [0, 2^128): complex on x86-64 only
C22_Witness ==
    \E i \in DOMAIN table :
        /\ registry[i].fam = "BoundedInt"
        /\ registry[i].lower = BigZero
        /\ registry[i].upper = BigShl1(128)
        /\ offset_bit_width(Range(registry[i].lower, registry[i].upper)) = 129
        /\ table[i].is_complex["x86_64"] = OkB(TRUE)
        /\ table[i].is_complex["aarch64"] = OkB(FALSE)

\* C23: a zero-sized type is never memory-allocated: where is_zst and
\* is_memory_allocated both return a boolean, is_zst = true implies
\* is_memory_allocated = false.
C23_ZstNotMemoryAllocated ==
    \A i \in DOMAIN table :
        (table[i].is_zst.ok /\ table[i].is_memory_allocated.ok) =>
            (table[i].is_zst.val => ~table[i].is_memory_allocated.val)

\* a nesting that is a ZST and holds an enum: a struct or wrapper of a
\* single-variant enum of a ZST, not memory-allocated
C23_Witness ==
    \E i \in DOMAIN table :
        /\ registry[i].fam \in {"Struct", "Snapshot", "Const"}
        /\ \E e \in refs(i) :
              /\ registry[e].fam = "Enum"
              /\ Len(registry[e].ty) = 1
        /\ table[i].is_zst = OkB(TRUE)
        /\ table[i].is_memory_allocated = OkB(FALSE)

\* C24: every memory-allocated type is complex: where is_memory_allocated
\* and is_complex both return a boolean, is_memory_allocated = true implies
\* is_complex = true, on either target.
C24_MemoryAllocatedIsComplex ==
    \A i \in DOMAIN table :
        \A arch \in Archs :
            (table[i].is_memory_allocated.ok /\ table[i].is_complex[arch].ok) =>
                (table[i].is_memory_allocated.val => table[i].is_complex[arch].val)

\* a Snapshot or single-variant enum of an enum of two felt252 variants is
\* memory-allocated and complex on AArch64, where felt252 is not complex
C24_Witness ==
    \E i \in DOMAIN table :
        /\ registry[i].fam \in {"Snapshot", "Enum"}
        /\ Len(registry[i].ty) = 1
        /\ registry[inner_of(i)].fam = "Enum"
        /\ Len(registry[inner_of(i)].ty) = 2
        /\ \A v \in refs(inner_of(i)) :
              table[v].is_complex["aarch64"] = OkB(FALSE)
        /\ table[i].is_memory_allocated = OkB(TRUE)
        /\ table[i].is_complex["aarch64"] = OkB(TRUE)

\* the files of the sequence files, in order, up to the first failed write
Prefixes(files) == {SubSeq(files, 1, k) : k \in 0..Len(files)}

\* the pre-pass files a call wrote, given the value of its first read
Prepass(t) == IF dump_enabled(gate[t][1]) THEN PrepassFiles ELSE <<>>

\* C25 as stated: a compile() that returned a module after the variable
\* changed between its two reads, or whose pass pipeline failed, wrote
\* exactly three of the six files.
C25_ThreeFilesOnChangeOrPassFailure ==
    \A t \in Threads :
        \/ /\ result[t].ok
           /\ Len(gate[t]) = 2
           /\ gate[t][1] # gate[t][2]
        \/ /\ result[t].err = "PassError"
        => Len(written[t]) = 3

\* C25: the gate is evaluated at two independent reads: the pre-pass files
\* are written iff the first read, made after lowering, gives "1" or "true",
\* the post-pass files iff the second read, made only after the pass
\* pipeline succeeded, does; each set is written in the order of the code
\* and a failed write keeps the files before it. A compile() that returned a
\* module with exactly one of its two reads enabling, or whose pipeline
\* failed after an enabling first read, wrote exactly three files; with no
\* enabling read it wrote none.
C25_GateReadTwice ==
    \A t \in Threads :
        LET r == result[t]
            g == gate[t]
        IN  /\ Len(g) <= 2
            /\ Len(g) >= 1 => module[t] \in {"lowered", "optimized"}
            /\ Len(g) = 2 => module[t] = "optimized"
            /\ g = <<>> => written[t] = <<>>
            /\ pc[t] \in {"passes", "postpass_dump"} =>
                  (Len(g) = 1 /\ written[t] = Prepass(t))
            /\ (r.err = "Io" /\ r.at = "prepass_dump") =>
                  /\ Len(g) = 1 /\ dump_enabled(g[1])
                  /\ written[t] \in Prefixes(PrepassFiles) \ {PrepassFiles}
            /\ r.err = "PassError" =>
                  (Len(g) = 1 /\ written[t] = Prepass(t))
            /\ (r.err = "Io" /\ r.at = "postpass_dump") =>
                  /\ Len(g) = 2 /\ dump_enabled(g[2])
                  /\ \E w \in Prefixes(PostpassFiles) \ {PostpassFiles} :
                        written[t] = Prepass(t) \o w
            /\ r.ok =>
                  /\ Len(g) = 2
                  /\ written[t] =
                        Prepass(t) \o
                        (IF dump_enabled(g[2]) THEN PostpassFiles ELSE <<>>)
                  /\ (dump_enabled(g[1]) # dump_enabled(g[2])) =>
                        Len(written[t]) = 3

\* the variable was set between the two reads of one call, which wrote the
\* three post-pass files only
C25_Witness ==
    \E t \in Threads :
        /\ result[t].ok
        /\ gate[t] = <<"unset", "true">>
        /\ written[t] = PostpassFiles

====
